---- MODULE Spec2Model ----
(***************************************************************************)
(* A model of the go-circle client (package circle): eleven operations,    *)
(* each of which builds a URL with fmt.Sprintf, makes one request with     *)
(* http.NewRequest, hands it to http.Client.Do and decodes the response    *)
(* body with encoding/json.                                                *)
(*                                                                         *)
(* Strings.  A Go string is modelled as a sequence of atoms.  An atom is   *)
(* either one delimiter character (a member of Delims) or a maximal run of *)
(* characters that are not delimiters (a "word").  Two Go strings are      *)
(* equal exactly when their atom sequences are equal, because Cat merges   *)
(* the words that meet at a seam.                                          *)
(***************************************************************************)
EXTENDS Integers, Sequences, FiniteSets, TLC

VARIABLES
    scope,    \* which input sets the calls draw from: "url", "json" or "calls"
    client,   \* the client struct: [token, http]
    pc,       \* per call: "idle", "inflight" (blocked in http.Client.Do), "returned"
    op,       \* per call: the method invoked
    args,     \* per call: its arguments
    url,      \* per call: the local variable url
    req,      \* per call: the *http.Request handed to Do
    resp,     \* per call: the *http.Response returned by Do
    result,   \* per call: the first return value
    err,      \* per call: the second return value
    sent,     \* per call: how many times Do was invoked
    decoded   \* per call: how many times the response body was decoded

vars == <<scope, client, pc, op, args, url, req, resp, result, err, sent, decoded>>

(***************************************************************************)
(* Strings and fmt.Sprintf                                                 *)
(***************************************************************************)

Delims == {"/", "?", "#", "&", "=", "%", ":"}

IsWord(a) == a \notin Delims

\* String concatenation: the %s of fmt.Sprintf splices its operand verbatim.
Cat(s, t) ==
    IF s # <<>> /\ t # <<>> /\ IsWord(s[Len(s)]) /\ IsWord(t[1])
    THEN SubSeq(s, 1, Len(s) - 1) \o <<s[Len(s)] \o t[1]>> \o Tail(t)
    ELSE s \o t

RECURSIVE CatAll(_)
CatAll(ss) == IF ss = <<>> THEN <<>> ELSE Cat(ss[1], CatAll(Tail(ss)))

Digit(d) == <<"0", "1", "2", "3", "4", "5", "6", "7", "8", "9">>[d + 1]

RECURSIVE DecStr(_)
DecStr(n) == IF n < 10 THEN Digit(n) ELSE DecStr(n \div 10) \o Digit(n % 10)

\* The %d of fmt.Sprintf: decimal digits, with a leading '-' for a negative number.
FormatInt(n) == <<IF n < 0 THEN "-" \o DecStr(-n) ELSE DecStr(n)>>

\* "https://circleci.com/api/v1"
Base == <<"https", ":", "/", "/", "circleci.com", "/", "api", "/", "v1">>

\* endpoint with the two operands of Sprintf in the other order
endpointOperandsSwapped(c, ep) ==
    CatAll(<<Base, c.token, <<"?", "circle-token", "=">>, ep>>)

\* fmt.Sprintf("https://circleci.com/api/v1%s?circle-token=%s", endpoint, c.token)
endpoint(c, ep) ==
    CatAll(<<Base, ep, <<"?", "circle-token", "=">>, c.token>>)

(***************************************************************************)
(* net/url.Parse and http.NewRequest, as far as the URLs built here reach  *)
(* them.  Every URL starts with Base, so the scheme and the host are fixed *)
(* and what varies is the path, the query and the fragment.                *)
(***************************************************************************)

\* strings.Index for a one-character separator; 0 when it does not occur.
IndexOf(s, d) ==
    IF \E i \in 1..Len(s) : s[i] = d
    THEN CHOOSE i \in 1..Len(s) : s[i] = d /\ \A j \in 1..(i - 1) : s[j] # d
    ELSE 0

Before(s, d) == IF IndexOf(s, d) = 0 THEN s ELSE SubSeq(s, 1, IndexOf(s, d) - 1)

After(s, d) == IF IndexOf(s, d) = 0 THEN <<>> ELSE SubSeq(s, IndexOf(s, d) + 1, Len(s))

\* Words whose first two characters are hexadecimal digits.
HexWords == {"41", "2F"}

\* net/url unescape: every '%' must be followed by two hexadecimal digits.
ValidEscapes(s) ==
    \A i \in 1..Len(s) :
        s[i] = "%" => (i < Len(s) /\ s[i + 1] \in HexWords)

\* url.Parse: the fragment is cut at the first '#', the query at the first '?'
\* of what is left, and the path and the fragment are unescaped.  Base puts
\* the scheme at position 1 and the host at position 5; the path starts at 6.
ParseURL(u) ==
    LET nofrag == Before(u, "#")
        frag   == After(u, "#")
        path   == Before(SubSeq(nofrag, 6, Len(nofrag)), "?")
        query  == After(nofrag, "?")
    IN  [ok         |-> ValidEscapes(path) /\ ValidEscapes(frag),
         Scheme     |-> nofrag[1],
         Host       |-> nofrag[5],
         Path       |-> path,
         ForceQuery |-> IndexOf(nofrag, "?") = Len(nofrag) /\ nofrag # <<>>,
         RawQuery   |-> query,
         Fragment   |-> frag]

\* NewRequest given a reader for an empty JSON document as the body of a
\* request that is not a read
NewRequestWithBody(method, u) ==
    [ok     |-> ParseURL(u).ok,
     Method |-> method,
     URL    |-> ParseURL(u),
     Header |-> IF method = "GET" THEN {} ELSE {<<"Content-Type", "application/json">>},
     Body   |-> IF method = "GET" THEN "nil" ELSE "strings.Reader"]

\* http.NewRequest(method, url, nil): the three methods used are valid, so it
\* fails exactly when url.Parse fails.  The request has no header and no body.
NewRequest(method, u) ==
    [ok     |-> ParseURL(u).ok,
     Method |-> method,
     URL    |-> ParseURL(u),
     Header |-> {},
     Body   |-> "nil"]

\* request.Header.Set(key, value)
HeaderSet(r, key, value) ==
    [r EXCEPT !.Header = {h \in r.Header : h[1] # key} \cup {<<key, value>>}]

\* URL.RequestURI, the request target written on the wire: the path, then
\* '?' and the raw query when there is one.  The fragment is never sent.
RequestURI(u) ==
    IF u.ForceQuery \/ u.RawQuery # <<>>
    THEN u.Path \o <<"?">> \o u.RawQuery
    ELSE u.Path

\* The query parameters as the receiver splits them: pairs separated by '&',
\* the key ending at the first '=' of a pair.
RECURSIVE SplitQuery(_)
SplitQuery(q) ==
    IF q = <<>> THEN <<>>
    ELSE LET pair == Before(q, "&")
             more == SplitQuery(After(q, "&"))
         IN  IF pair = <<>> THEN more
             ELSE <<[key |-> Before(pair, "="), value |-> After(pair, "=")]>> \o more

(***************************************************************************)
(* encoding/json.  A response body is a sequence of JSON tokens; white     *)
(* space is left out.  Decoder.Decode first scans one complete value       *)
(* (a syntax error or a premature end of the body fails the call before    *)
(* anything is stored) and then stores it into the Go value.               *)
(***************************************************************************)

LBrace   == [t |-> "{"]
RBrace   == [t |-> "}"]
LBracket == [t |-> "["]
RBracket == [t |-> "]"]
Colon    == [t |-> ":"]
Comma    == [t |-> ","]
TNull    == [t |-> "null"]
TTrue    == [t |-> "true"]
TFalse   == [t |-> "false"]
TStr(s)  == [t |-> "string", s |-> s]
\* a number literal with neither fraction nor exponent
TInt(n)  == [t |-> "int", n |-> n]
\* a number literal with a fraction, such as 1.5, given by its text
TFrac(x) == [t |-> "frac", x |-> x]
\* a character that starts no JSON token
TJunk    == [t |-> "junk"]

\* JSON values, as the scanner delimits them
JNull     == [j |-> "null"]
JBool(b)  == [j |-> "bool", b |-> b]
JInt(n)   == [j |-> "int", n |-> n]
JFrac(x)  == [j |-> "frac", x |-> x]
JStr(s)   == [j |-> "string", s |-> s]
JArr(es)  == [j |-> "array", a |-> es]
\* the members of an object in the order they are written: <<key, value>> pairs
JObj(ms)  == [j |-> "object", o |-> ms]

Scanned(v, n) == [ok |-> TRUE, v |-> v, next |-> n]
\* io.EOF when the body holds nothing, io.ErrUnexpectedEOF when it ends early
EOFError(i)   == [ok |-> FALSE, why |-> IF i = 1 THEN "EOF" ELSE "unexpected EOF"]
SyntaxError   == [ok |-> FALSE, why |-> "SyntaxError"]

RECURSIVE ScanValue(_, _), ScanObject(_, _, _), ScanArray(_, _, _)

\* one value starting at token i
ScanValue(b, i) ==
    IF i > Len(b) THEN EOFError(i)
    ELSE CASE b[i].t = "null"   -> Scanned(JNull, i + 1)
           [] b[i].t = "true"   -> Scanned(JBool(TRUE), i + 1)
           [] b[i].t = "false"  -> Scanned(JBool(FALSE), i + 1)
           [] b[i].t = "string" -> Scanned(JStr(b[i].s), i + 1)
           [] b[i].t = "int"    -> Scanned(JInt(b[i].n), i + 1)
           [] b[i].t = "frac"   -> Scanned(JFrac(b[i].x), i + 1)
           [] b[i].t = "{"      ->
                IF i + 1 > Len(b) THEN EOFError(i + 1)
                ELSE IF b[i + 1].t = "}" THEN Scanned(JObj(<<>>), i + 2)
                ELSE ScanObject(b, i + 1, <<>>)
           [] b[i].t = "["      ->
                IF i + 1 > Len(b) THEN EOFError(i + 1)
                ELSE IF b[i + 1].t = "]" THEN Scanned(JArr(<<>>), i + 2)
                ELSE ScanArray(b, i + 1, <<>>)
           [] OTHER             -> SyntaxError

\* the members of an object, the next key expected at token i
ScanObject(b, i, ms) ==
    LET key    == i <= Len(b) /\ b[i].t = "string"
        colon  == key /\ i + 1 <= Len(b) /\ b[i + 1].t = ":"
        r      == ScanValue(b, i + 2)
        value  == colon /\ r.ok
        after  == value /\ r.next <= Len(b)
        member == Append(ms, <<b[i].s, r.v>>)
    IN  CASE after /\ b[r.next].t = "," -> ScanObject(b, r.next + 1, member)
          [] after /\ b[r.next].t = "}" -> Scanned(JObj(member), r.next + 1)
          [] after /\ b[r.next].t \notin {",", "}"} -> SyntaxError
          [] value /\ ~after -> EOFError(r.next)
          [] colon /\ ~value -> r
          [] key /\ ~colon -> IF i + 1 > Len(b) THEN EOFError(i + 1) ELSE SyntaxError
          [] ~key -> IF i > Len(b) THEN EOFError(i) ELSE SyntaxError

\* the elements of an array, the next element expected at token i
ScanArray(b, i, es) ==
    LET r == ScanValue(b, i)
        after == r.ok /\ r.next <= Len(b)
    IN  CASE after /\ b[r.next].t = "," -> ScanArray(b, r.next + 1, Append(es, r.v))
          [] after /\ b[r.next].t = "]" -> Scanned(JArr(Append(es, r.v)), r.next + 1)
          [] after /\ b[r.next].t \notin {",", "]"} -> SyntaxError
          [] r.ok /\ ~after -> EOFError(r.next)
          [] ~r.ok -> r

(***************************************************************************)
(* Go types and values.  bool, int and string are TLA+ booleans, integers  *)
(* and strings; a struct is a record over its Go field names; a slice and  *)
(* a map carry whether they are nil; an interface{} value is tagged with   *)
(* its dynamic type.                                                       *)
(***************************************************************************)

BoolT      == [k |-> "bool"]
IntT       == [k |-> "int"]
StringT    == [k |-> "string"]
AnyT       == [k |-> "interface"]
SliceT(e)  == [k |-> "slice", e |-> e]
MapT(e)    == [k |-> "map", e |-> e]
RECURSIVE SeqOf(_)
\* the elements of a finite set, one after the other
SeqOf(S) ==
    IF S = {} THEN <<>>
    ELSE LET x == CHOOSE y \in S : TRUE IN <<x>> \o SeqOf(S \ {x})

\* fs: Go field name |-> F(json key, type); order: the fields one after the other
StructT(fs) == [k |-> "struct", f |-> fs, order |-> SeqOf(DOMAIN fs)]
F(key, ty) == [json |-> key, ty |-> ty]

NilSlice       == [isnil |-> TRUE, elems |-> <<>>]
MakeSlice(es)  == [isnil |-> FALSE, elems |-> es]
NilMap         == [isnil |-> TRUE, m |-> <<>>]
MakeMap(m)     == [isnil |-> FALSE, m |-> m]
NilAny         == [any |-> "nil"]

RECURSIVE Zero(_)
\* the zero value of a type
Zero(ty) ==
    CASE ty.k = "bool"      -> FALSE
      [] ty.k = "int"       -> 0
      [] ty.k = "string"    -> ""
      [] ty.k = "interface" -> NilAny
      [] ty.k = "slice"     -> NilSlice
      [] ty.k = "map"       -> NilMap
      [] ty.k = "struct"    -> [g \in DOMAIN ty.f |-> Zero(ty.f[g].ty)]

RECURSIVE AnyOf(_)
\* what a JSON value becomes in an interface{}: nil, bool, float64, string,
\* []interface{} or map[string]interface{}
AnyOf(v) ==
    CASE v.j = "null"   -> NilAny
      [] v.j = "bool"   -> [any |-> "bool", b |-> v.b]
      [] v.j = "int"    -> [any |-> "float64", n |-> v.n]
      [] v.j = "frac"   -> [any |-> "float64", x |-> v.x]
      [] v.j = "string" -> [any |-> "string", s |-> v.s]
      [] v.j = "array"  -> [any |-> "slice", e |-> [i \in 1..Len(v.a) |-> AnyOf(v.a[i])]]
      [] v.j = "object" ->
            [any |-> "map",
             m |-> [key \in {v.o[i][1] : i \in 1..Len(v.o)} |->
                      AnyOf(v.o[CHOOSE i \in 1..Len(v.o) :
                                  /\ v.o[i][1] = key
                                  /\ \A h \in (i + 1)..Len(v.o) : v.o[h][1] # key][2])]]

\* Upper-case spellings of keys, for the case-insensitive match of a key
\* with a field; any other key is its own folding.
Fold(key) ==
    CASE key = "STATUS"    -> "status"
      [] key = "Build_Num" -> "build_num"
      [] OTHER             -> key

\* The field a key is stored into: an exact match of the json name is
\* preferred, a case-insensitive one accepted; "" when the key is unknown.
FieldFor(fs, key) ==
    IF \E g \in DOMAIN fs : fs[g].json = key
    THEN CHOOSE g \in DOMAIN fs : fs[g].json = key
    ELSE IF \E g \in DOMAIN fs : Fold(fs[g].json) = Fold(key)
    THEN CHOOSE g \in DOMAIN fs : Fold(fs[g].json) = Fold(key)
    ELSE ""

Stored(v)       == [v |-> v, err |-> ""]
\* an UnmarshalTypeError leaves the destination as it was
Mismatch(cur)   == [v |-> cur, err |-> "UnmarshalTypeError"]
\* the first error is the one reported
FirstErr(a, b)  == IF a # "" THEN a ELSE b

RECURSIVE Unmarshal(_, _, _), UnmarshalMembers(_, _, _, _), UnmarshalElems(_, _, _), UnmarshalEntries(_, _, _, _)
RECURSIVE UnmarshalElemsPrepends(_, _, _)
RECURSIVE UnmarshalElemsCapped(_, _, _)

\* Unmarshal that stores an empty slice or map, not nil, for a null
UnmarshalNullIsEmpty(ty, v, cur) ==
    CASE ty.k = "interface" -> Stored(AnyOf(v))
      [] ty.k = "bool" ->
            IF v.j = "bool" THEN Stored(v.b)
            ELSE IF v.j = "null" THEN Stored(cur) ELSE Mismatch(cur)
      [] ty.k = "int" ->
            IF v.j = "int" THEN Stored(v.n)
            ELSE IF v.j = "null" THEN Stored(cur) ELSE Mismatch(cur)
      [] ty.k = "string" ->
            IF v.j = "string" THEN Stored(v.s)
            ELSE IF v.j = "null" THEN Stored(cur) ELSE Mismatch(cur)
      [] ty.k = "slice" ->
            IF v.j = "array" THEN UnmarshalElems(ty.e, v.a, <<>>)
            ELSE IF v.j = "null" THEN Stored(MakeSlice(<<>>)) ELSE Mismatch(cur)
      [] ty.k = "map" ->
            IF v.j = "object" THEN UnmarshalEntries(ty.e, v.o, 1, MakeMap(cur.m))
            ELSE IF v.j = "null" THEN Stored(MakeMap(<<>>)) ELSE Mismatch(cur)
      [] ty.k = "struct" ->
            IF v.j = "object" THEN UnmarshalMembers(ty.f, v.o, 1, Stored(cur))
            ELSE IF v.j = "null" THEN Stored(cur) ELSE Mismatch(cur)

\* Store JSON value v into a destination of type ty that holds cur.  A type
\* mismatch is recorded and decoding goes on with the rest of the value.
Unmarshal(ty, v, cur) ==
    CASE ty.k = "interface" -> Stored(AnyOf(v))
      [] ty.k = "bool" ->
            IF v.j = "bool" THEN Stored(v.b)
            ELSE IF v.j = "null" THEN Stored(cur) ELSE Mismatch(cur)
      [] ty.k = "int" ->
            IF v.j = "int" THEN Stored(v.n)
            ELSE IF v.j = "null" THEN Stored(cur) ELSE Mismatch(cur)
      [] ty.k = "string" ->
            IF v.j = "string" THEN Stored(v.s)
            ELSE IF v.j = "null" THEN Stored(cur) ELSE Mismatch(cur)
      [] ty.k = "slice" ->
            IF v.j = "array" THEN UnmarshalElems(ty.e, v.a, <<>>)
            ELSE IF v.j = "null" THEN Stored(NilSlice) ELSE Mismatch(cur)
      [] ty.k = "map" ->
            IF v.j = "object" THEN UnmarshalEntries(ty.e, v.o, 1, MakeMap(cur.m))
            ELSE IF v.j = "null" THEN Stored(NilMap) ELSE Mismatch(cur)
      [] ty.k = "struct" ->
            IF v.j = "object" THEN UnmarshalMembers(ty.f, v.o, 1, Stored(cur))
            ELSE IF v.j = "null" THEN Stored(cur) ELSE Mismatch(cur)

\* The members of an object into the fields of a struct, in the order
\* written, from member i on; acc holds the struct and the first error so far.
UnmarshalMembers(fs, ms, i, acc) ==
    LET g == FieldFor(fs, ms[i][1])
        r == Unmarshal(fs[g].ty, ms[i][2], acc.v[g])
    IN  CASE i > Len(ms) -> acc
          [] i <= Len(ms) /\ g \notin DOMAIN acc.v -> UnmarshalMembers(fs, ms, i + 1, acc)
          [] i <= Len(ms) /\ g \in DOMAIN acc.v ->
                UnmarshalMembers(fs, ms, i + 1,
                                 [v |-> [acc.v EXCEPT ![g] = r.v], err |-> FirstErr(acc.err, r.err)])

\* UnmarshalElems that puts every element in front of those before it
UnmarshalElemsPrepends(ety, es, done) ==
    IF Len(done) = Len(es) THEN Stored(MakeSlice(done))
    ELSE LET r    == Unmarshal(ety, es[Len(done) + 1], Zero(ety))
             more == UnmarshalElemsPrepends(ety, es, <<r.v>> \o done)
         IN  [v |-> more.v, err |-> FirstErr(r.err, more.err)]

\* UnmarshalElems that stops after the 30 elements the documentation speaks of
UnmarshalElemsCapped(ety, es, done) ==
    IF Len(done) = Len(es) \/ Len(done) = 30 THEN Stored(MakeSlice(done))
    ELSE LET r    == Unmarshal(ety, es[Len(done) + 1], Zero(ety))
             more == UnmarshalElemsCapped(ety, es, Append(done, r.v))
         IN  [v |-> more.v, err |-> FirstErr(r.err, more.err)]

\* the elements of an array into a new slice, in the order written
UnmarshalElems(ety, es, done) ==
    IF Len(done) = Len(es) THEN Stored(MakeSlice(done))
    ELSE LET r    == Unmarshal(ety, es[Len(done) + 1], Zero(ety))
             more == UnmarshalElems(ety, es, Append(done, r.v))
         IN  [v |-> more.v, err |-> FirstErr(r.err, more.err)]

\* the members of an object into the entries of a map
UnmarshalEntries(ety, ms, i, cur) ==
    IF i > Len(ms) THEN Stored(cur)
    ELSE LET r    == Unmarshal(ety, ms[i][2], Zero(ety))
             keys == DOMAIN cur.m \cup {ms[i][1]}
             put  == MakeMap([key \in keys |-> IF key = ms[i][1] THEN r.v ELSE cur.m[key]])
             more == UnmarshalEntries(ety, ms, i + 1, put)
         IN  [v |-> more.v, err |-> FirstErr(r.err, more.err)]

\* json.NewDecoder(body).Decode(&x) with x the zero value of ty: the error,
\* and what x holds afterwards.  What follows the first value is not read.
Decode(ty, body) ==
    LET s == ScanValue(body, 1) IN
    IF ~s.ok THEN [v |-> Zero(ty), err |-> s.why]
    ELSE Unmarshal(ty, s.v, Zero(ty))

(***************************************************************************)
(* The result shapes: for every field its Go name, its json key and its    *)
(* type, as the struct tags give them.                                     *)
(***************************************************************************)

\* type Me struct, lines 92-117
MeFields ==
      [ Admin               |-> F("admin", BoolT),
        Emails              |-> F("all_emails", SliceT(StringT)),
        AvatarURL           |-> F("avatar_url", StringT),
        BasicEmailPrefs     |-> F("basic_email_prefs", StringT),
        Containers          |-> F("containers", IntT),
        CreatedAt           |-> F("created_at", StringT),
        DaysLeftInTrial     |-> F("days_left_in_trial", IntT),
        DevAdmin            |-> F("dev_admin", BoolT),
        GithubID            |-> F("github_id", IntT),
        GithubOauthScopes   |-> F("github_oauth_scopes", SliceT(StringT)),
        GravatarID          |-> F("gravatar_id", AnyT),
        HerokuAPIKey        |-> F("heroku_api_key", AnyT),
        LastViewedChangelog |-> F("last_viewed_changelog", StringT),
        Login               |-> F("login", StringT),
        Name                |-> F("name", StringT),
        Parallelism         |-> F("parallelism", IntT),
        Plan                |-> F("plan", AnyT),
        Projects            |-> F("projects", MapT(StructT([
            Emails      |-> F("emails", StringT),
            OnDashboard |-> F("on_dashboard", BoolT)]))),
        SelectedEmail       |-> F("selected_email", StringT),
        SignInCount         |-> F("sign_in_count", IntT),
        TrialEnd            |-> F("trial_end", StringT)]

\* type Project struct, lines 144-192
ProjectFields ==
      [ AWS                 |-> F("aws", StructT([
            KeyPair |-> F("keypair", AnyT)])),
        Branches            |-> F("branches", MapT(StructT([
            AddedAt     |-> F("added_at", StringT),
            BuildNum    |-> F("build_num", IntT),
            Outcome     |-> F("outcome", StringT),
            PushedAt    |-> F("pushed_at", StringT),
            Status      |-> F("status", StringT),
            VcsRevision |-> F("vcs_revision", StringT)]))),
        CampfireNotifyPrefs |-> F("campfire_notify_prefs", AnyT),
        CampfireRoom        |-> F("campfire_room", AnyT),
        CampfireSubdomain   |-> F("campfire_subdomain", AnyT),
        CampfireToken       |-> F("campfire_token", AnyT),
        Compile             |-> F("compile", StringT),
        DefaultBranch       |-> F("default_branch", StringT),
        Dependencies        |-> F("dependencies", StringT),
        Extra               |-> F("extra", StringT),
        FeatureFlags        |-> F("feature_flags", MapT(BoolT)),
        FlowdockAPIToken    |-> F("flowdock_api_token", AnyT),
        Followed            |-> F("followed", BoolT),
        HasUsableKey        |-> F("has_usable_key", BoolT),
        HerokuDeployUser    |-> F("heroku_deploy_user", AnyT),
        HipChatAPIToken     |-> F("hipchat_api_token", AnyT),
        HipChatNotify       |-> F("hipchat_notify", AnyT),
        HipChatNotifyPrefs  |-> F("hipchat_notify_prefs", AnyT),
        HipChatRoom         |-> F("hipchat_room", AnyT),
        IRCChannel          |-> F("irc_channel", AnyT),
        IRCKeyword          |-> F("irc_keyword", AnyT),
        IRCNotifyPrefs      |-> F("irc_notify_prefs", AnyT),
        IRCPassword         |-> F("irc_password", AnyT),
        IRCServer           |-> F("irc_server", AnyT),
        IRCUsername         |-> F("irc_username", AnyT),
        Parallel            |-> F("parallel", IntT),
        Reponame            |-> F("reponame", StringT),
        Scopes              |-> F("scopes", SliceT(StringT)),
        Setup               |-> F("setup", StringT),
        SlackAPIToken       |-> F("slack_api_token", AnyT),
        SlackChannel        |-> F("slack_channel", AnyT),
        SlackNotifyPrefs    |-> F("slack_notify_prefs", AnyT),
        SlackSubdomain      |-> F("slack_subdomain", AnyT),
        SlackWebhookURL     |-> F("slack_webhook_url", StringT),
        SSHKeys             |-> F("ssh_keys", SliceT(AnyT)),
        Test                |-> F("test", StringT),
        Username            |-> F("username", StringT),
        VCSURL              |-> F("vcs_url", StringT)]

\* type BuildSummary struct, lines 219-304
BuildSummaryFields ==
      [ CommitDetails           |-> F("all_commit_details", SliceT(StructT([
            AuthorDate     |-> F("author_date", StringT),
            AuthorEmail    |-> F("author_email", StringT),
            AuthorLogin    |-> F("author_login", StringT),
            AuthorName     |-> F("author_name", StringT),
            Body           |-> F("body", StringT),
            Branch         |-> F("branch", StringT),
            Commit         |-> F("commit", StringT),
            CommitURL      |-> F("commit_url", StringT),
            CommitterDate  |-> F("committer_date", StringT),
            CommitterEmail |-> F("committer_email", StringT),
            CommitterLogin |-> F("committer_login", StringT),
            CommitterName  |-> F("committer_name", StringT),
            Subject        |-> F("subject", StringT)]))),
        AuthorDate              |-> F("author_date", StringT),
        AuthorEmail             |-> F("author_email", StringT),
        AuthorName              |-> F("author_name", StringT),
        Body                    |-> F("body", StringT),
        Branch                  |-> F("branch", StringT),
        BuildNum                |-> F("build_num", IntT),
        BuildParameters         |-> F("build_parameters", AnyT),
        BuildTimeMillis         |-> F("build_time_millis", IntT),
        BuildURL                |-> F("build_url", StringT),
        Canceled                |-> F("canceled", BoolT),
        Canceler                |-> F("canceler", AnyT),
        CircleYml               |-> F("circle_yml", StructT([
            String |-> F("string", StringT)])),
        CommitterDate           |-> F("committer_date", StringT),
        CommitterEmail          |-> F("committer_email", StringT),
        CommitterName           |-> F("committer_name", StringT),
        Compare                 |-> F("compare", StringT),
        DontBuild               |-> F("dont_build", AnyT),
        Failed                  |-> F("failed", AnyT),
        FeatureFlags            |-> F("feature_flags", StructT(<<>>)),
        HasArtifacts            |-> F("has_artifacts", BoolT),
        InfrastructureFail      |-> F("infrastructure_fail", BoolT),
        IsFirstGreenBuild       |-> F("is_first_green_build", BoolT),
        JobName                 |-> F("job_name", AnyT),
        Lifecycle               |-> F("lifecycle", StringT),
        Messages                |-> F("messages", SliceT(AnyT)),
        Node                    |-> F("node", SliceT(StructT([
            ImageID      |-> F("image_id", StringT),
            Port         |-> F("port", IntT),
            PublicIPAddr |-> F("public_ip_addr", StringT),
            SSHEnabled   |-> F("ssh_enabled", AnyT),
            Username     |-> F("username", StringT)]))),
        Oss                     |-> F("oss", BoolT),
        Outcome                 |-> F("outcome", StringT),
        Parallel                |-> F("parallel", IntT),
        Previous                |-> F("previous", StructT([
            BuildNum        |-> F("build_num", IntT),
            BuildTimeMillis |-> F("build_time_millis", IntT),
            Status          |-> F("status", StringT)])),
        PreviousSuccessfulBuild |-> F("previous_successful_build", StructT([
            BuildNum        |-> F("build_num", IntT),
            BuildTimeMillis |-> F("build_time_millis", IntT),
            Status          |-> F("status", StringT)])),
        QueuedAt                |-> F("queued_at", StringT),
        Reponame                |-> F("reponame", StringT),
        Retries                 |-> F("retries", AnyT),
        RetryOf                 |-> F("retry_of", IntT),
        SSHEnabled              |-> F("ssh_enabled", AnyT),
        SSHUsers                |-> F("ssh_users", SliceT(AnyT)),
        StartTime               |-> F("start_time", StringT),
        Status                  |-> F("status", StringT),
        StopTime                |-> F("stop_time", StringT),
        Subject                 |-> F("subject", StringT),
        Timedout                |-> F("timedout", BoolT),
        UsageQueuedAt           |-> F("usage_queued_at", StringT),
        User                    |-> F("user", StructT([
            Email  |-> F("email", StringT),
            IsUser |-> F("is_user", BoolT),
            Login  |-> F("login", StringT),
            Name   |-> F("name", StringT)])),
        Username                |-> F("username", StringT),
        VCSRevision             |-> F("vcs_revision", StringT),
        VCSURL                  |-> F("vcs_url", StringT),
        Why                     |-> F("why", StringT)]

\* type DetailedBuildSummary struct, lines 394-423
DetailedBuildSummaryOwnFields ==
      [ Owners          |-> F("owners", SliceT(StringT)),
        PullRequestUrls |-> F("pull_request_urls", SliceT(AnyT)),
        Steps           |-> F("steps", SliceT(StructT([
            Actions |-> F("actions", SliceT(StructT([
                BashCommand        |-> F("bash_command", AnyT),
                Canceled           |-> F("canceled", AnyT),
                Command            |-> F("command", StringT),
                Continue           |-> F("continue", AnyT),
                EndTime            |-> F("end_time", StringT),
                ExitCode           |-> F("exit_code", AnyT),
                Failed             |-> F("failed", AnyT),
                HasOutput          |-> F("has_output", BoolT),
                Index              |-> F("index", IntT),
                InfrastructureFail |-> F("infrastructure_fail", AnyT),
                Messages           |-> F("messages", SliceT(AnyT)),
                Name               |-> F("name", StringT),
                Parallel           |-> F("parallel", BoolT),
                RunTimeMillis      |-> F("run_time_millis", IntT),
                StartTime          |-> F("start_time", StringT),
                Status             |-> F("status", StringT),
                Step               |-> F("step", IntT),
                Timedout           |-> F("timedout", AnyT),
                Truncated          |-> F("truncated", BoolT),
                Type               |-> F("type", StringT)]))),
            Name    |-> F("name", StringT)])))]

\* type Artifact struct, lines 450-455
ArtifactFields ==
      [ NodeIndex  |-> F("node_index", IntT),
        Path       |-> F("path", StringT),
        PrettyPath |-> F("pretty_path", StringT),
        URL        |-> F("url", StringT)]

\* type Build struct, lines 482-508
BuildFields ==
      [ Body            |-> F("body", StringT),
        Branch          |-> F("branch", StringT),
        BuildNum        |-> F("build_num", IntT),
        BuildTimeMillis |-> F("build_time_millis", IntT),
        BuildURL        |-> F("build_url", StringT),
        CommitterEmail  |-> F("committer_email", StringT),
        CommitterName   |-> F("committer_name", StringT),
        DontBuild       |-> F("dont_build", StringT),
        Lifecycle       |-> F("lifecycle", StringT),
        Outcome         |-> F("outcome", AnyT),
        Previous        |-> F("previous", StructT([
            BuildNum |-> F("build_num", IntT),
            Status   |-> F("status", StringT)])),
        QueuedAt        |-> F("queued_at", StringT),
        Reponame        |-> F("reponame", StringT),
        RetryOf         |-> F("retry_of", IntT),
        StartTime       |-> F("start_time", StringT),
        Status          |-> F("status", StringT),
        StopTime        |-> F("stop_time", StringT),
        Subject         |-> F("subject", StringT),
        Username        |-> F("username", StringT),
        VCSRevision     |-> F("vcs_revision", StringT),
        VCSURL          |-> F("vcs_url", StringT),
        Why             |-> F("why", StringT)]

\* type ClearCacheResponse struct, lines 584-586
ClearCacheResponseFields ==
      [ Status |-> F("status", StringT)]

MeType                   == StructT(MeFields)
ProjectType              == StructT(ProjectFields)
BuildSummaryType         == StructT(BuildSummaryFields)
\* The embedded BuildSummary promotes its fields: its keys are read from
\* the same JSON object as owners, pull_request_urls and steps.
DetailedBuildSummaryType == StructT(BuildSummaryFields @@ DetailedBuildSummaryOwnFields)
ArtifactType             == StructT(ArtifactFields)
BuildType                == StructT(BuildFields)
ClearCacheResponseType   == StructT(ClearCacheResponseFields)

(***************************************************************************)
(* The inputs.  The calls of one behaviour draw their arguments and their  *)
(* responses from the sets of its scope: "url" varies the arguments of one *)
(* call, "json" the response body of one call, and "calls" runs MaxCalls   *)
(* calls side by side on one client.                                       *)
(***************************************************************************)

MaxCalls == 2

Calls == 1..MaxCalls

\* the two calls that are compared with each other
Pair == {1, 2}

Running ==
    CASE scope = "calls" -> Calls
      [] scope = "pairs" -> Pair
      [] OTHER           -> {1}

Nil    == <<>>
Ptr(v) == <<v>>

Tokens ==
    IF scope = "url" THEN {<<"t0k">>, <<"s3cr3t">>} ELSE {<<"t0k">>}

Usernames ==
    IF scope = "url"
    THEN {<<"segmentio">>, <<"f2prateek">>, <<"a", "?", "b">>, <<"a", "#", "b">>,
          <<"a", "&", "b">>, <<"%", "zz">>}
    ELSE IF scope = "pairs"
    THEN {<<"segmentio">>, <<"f2prateek">>}
    ELSE {<<"segmentio">>}

Projectnames ==
    IF scope = "url"
    THEN {<<"analytics-android">>, <<"go-circle", "/", "7">>, <<"x", "%", "41">>}
    ELSE IF scope = "pairs"
    THEN {<<"analytics-android">>, <<"tree">>, <<"analytics-android", "/", "7">>}
    ELSE {<<"analytics-android">>}

Branches ==
    IF scope = "url"
    THEN {<<"master">>, <<"pull", "/", "346">>, <<"b", "?", "limit", "=", "9">>}
    ELSE IF scope = "pairs"
    THEN {<<"master">>, <<"7">>}
    ELSE {<<"master">>}

Nums ==
    CASE scope = "url"   -> {7, 345, -1}
      [] scope = "pairs" -> {7, 345}
      [] OTHER           -> {345}

Limits ==
    CASE scope = "url"   -> {Nil, Ptr(0), Ptr(2)}
      [] scope = "pairs" -> {Nil, Ptr(2)}
      [] OTHER           -> {Nil}

Offsets == IF scope = "url" THEN {Nil, Ptr(0), Ptr(1)} ELSE {Nil}

Filters ==
    IF scope = "url"
    THEN {Nil, Ptr(<<>>), Ptr(<<"completed">>), Ptr(<<"a", "=", "b">>),
          Ptr(<<"failed", "&", "limit", "=", "9">>)}
    ELSE {Nil}

\* type RecentBuildsOptions struct
RecentBuildsOptions ==
    {[Limit |-> l, Offset |-> o, Filter |-> f] : l \in Limits, o \in Offsets, f \in Filters}

(***************************************************************************)
(* Response bodies.  A body is written down as the JSON value it spells    *)
(* and turned into its text (its tokens) by Text.                          *)
(***************************************************************************)

RECURSIVE Text(_), TextMembers(_, _), TextElems(_, _)

Text(v) ==
    CASE v.j = "null"   -> <<TNull>>
      [] v.j = "bool"   -> <<IF v.b THEN TTrue ELSE TFalse>>
      [] v.j = "int"    -> <<TInt(v.n)>>
      [] v.j = "frac"   -> <<TFrac(v.x)>>
      [] v.j = "string" -> <<TStr(v.s)>>
      [] v.j = "array"  -> <<LBracket>> \o TextElems(v.a, 1) \o <<RBracket>>
      [] v.j = "object" -> <<LBrace>> \o TextMembers(v.o, 1) \o <<RBrace>>

TextMembers(ms, i) ==
    IF i > Len(ms) THEN <<>>
    ELSE (IF i > 1 THEN <<Comma>> ELSE <<>>)
         \o <<TStr(ms[i][1]), Colon>> \o Text(ms[i][2]) \o TextMembers(ms, i + 1)

TextElems(es, i) ==
    IF i > Len(es) THEN <<>>
    ELSE (IF i > 1 THEN <<Comma>> ELSE <<>>) \o Text(es[i]) \o TextElems(es, i + 1)

\* {"status":"build caches deleted"}
ClearCacheJSON ==
    JObj(<< <<"status", JStr("build caches deleted")>> >>)

BuildJSON ==
    JObj(<< <<"build_num", JInt(346)>>,
            <<"status", JStr("queued")>>,
            <<"branch", JStr("master")>>,
            <<"outcome", JNull>>,
            <<"previous", JObj(<< <<"build_num", JInt(345)>>,
                                  <<"status", JStr("success")>> >>)>>,
            <<"retry_of", JInt(345)>>,
            <<"no_such_field", JBool(TRUE)>> >>)

RecentBuildsJSON ==
    JArr(<< JObj(<< <<"build_num", JInt(346)>>,
                    <<"status", JStr("success")>>,
                    <<"canceled", JBool(FALSE)>>,
                    <<"all_commit_details",
                      JArr(<< JObj(<< <<"commit", JStr("4f2a")>> >>) >>)>> >>),
            JObj(<< <<"build_num", JInt(345)>>,
                    <<"status", JStr("failed")>>,
                    <<"canceled", JBool(TRUE)>>,
                    <<"retries", JArr(<<JInt(347)>>)>> >>) >>)

BuildSummaryJSON ==
    JObj(<< <<"build_num", JInt(345)>>,
            <<"status", JStr("success")>>,
            <<"owners", JArr(<<JStr("alice"), JStr("bob")>>)>>,
            <<"steps",
              JArr(<< JObj(<< <<"name", JStr("checkout")>>,
                              <<"actions",
                                JArr(<< JObj(<< <<"index", JInt(0)>>,
                                                <<"name", JStr("git clone")>> >>),
                                        JObj(<< <<"index", JInt(1)>>,
                                                <<"name", JStr("git checkout")>> >>) >>)>> >>),
                      JObj(<< <<"name", JStr("test")>>,
                              <<"actions",
                                JArr(<< JObj(<< <<"index", JInt(0)>>,
                                                <<"name", JStr("gradle test")>>,
                                                <<"exit_code", JInt(0)>> >>) >>)>> >>) >>)>> >>)

ArtifactsJSON ==
    JArr(<< JObj(<< <<"node_index", JInt(0)>>,
                    <<"path", JStr("/tmp/app.apk")>>,
                    <<"pretty_path", JStr("$CIRCLE_ARTIFACTS/app.apk")>>,
                    <<"url", JStr("https://circle-artifacts.com/app.apk")>> >>),
            JObj(<< <<"node_index", JInt(1)>>,
                    <<"path", JStr("/tmp/lint.html")>> >>) >>)

MeJSON ==
    JObj(<< <<"login", JStr("alice")>>,
            <<"admin", JBool(TRUE)>>,
            <<"all_emails", JArr(<<JStr("alice@example.com")>>)>>,
            <<"containers", JInt(2)>>,
            <<"plan", JNull>>,
            <<"projects",
              JObj(<< <<"https://github.com/segmentio/analytics-android",
                        JObj(<< <<"emails", JStr("default")>>,
                                <<"on_dashboard", JBool(TRUE)>> >>)>> >>)>> >>)

ProjectsJSON ==
    JArr(<< JObj(<< <<"reponame", JStr("analytics-android")>>,
                    <<"username", JStr("segmentio")>>,
                    <<"followed", JBool(TRUE)>>,
                    <<"parallel", JInt(1)>>,
                    <<"aws", JObj(<< <<"keypair", JNull>> >>)>>,
                    <<"branches",
                      JObj(<< <<"master", JObj(<< <<"build_num", JInt(7)>>,
                                                  <<"status", JStr("success")>> >>)>> >>)>>,
                    <<"feature_flags", JObj(<< <<"junit", JBool(TRUE)>> >>)>>,
                    <<"scopes", JArr(<<JStr("write-settings")>>)>> >>) >>)

\* a build whose steps and actions come in no order of name or index, one
\* step twice and one step without actions
StepsJSON ==
    JObj(<< <<"build_num", JInt(7)>>,
            <<"steps",
              JArr(<< JObj(<< <<"name", JStr("test")>>,
                              <<"actions",
                                JArr(<< JObj(<< <<"index", JInt(2)>>, <<"name", JStr("lint")>> >>),
                                        JObj(<< <<"index", JInt(0)>>, <<"name", JStr("unit")>> >>),
                                        JObj(<< <<"index", JInt(2)>>, <<"name", JStr("lint")>> >>)
                                     >>)>> >>),
                      JObj(<< <<"name", JStr("checkout")>>, <<"actions", JArr(<<>>)>> >>),
                      JObj(<< <<"name", JStr("test")>>,
                              <<"actions",
                                JArr(<< JObj(<< <<"index", JInt(1)>>, <<"name", JStr("unit")>> >>)
                                     >>)>> >>) >>)>> >>)

\* recent builds in no order of build_num
UnorderedBuildsJSON ==
    JArr(<< JObj(<< <<"build_num", JInt(346)>>, <<"status", JStr("success")>> >>),
            JObj(<< <<"build_num", JInt(7)>>, <<"status", JStr("failed")>> >>),
            JObj(<< <<"build_num", JInt(345)>>, <<"status", JStr("success")>> >>) >>)

\* "the last 30 recent builds" of the comment on RecentBuilds
RecentBuildsLimit == 30

\* one build more than that, from build_num 399 down
ManyBuildsJSON ==
    JArr([i \in 1..(RecentBuildsLimit + 1) |-> JObj(<< <<"build_num", JInt(400 - i)>> >>)])

\* the well-formed bodies, one for every result shape
Fixtures ==
    {ClearCacheJSON, BuildJSON, RecentBuildsJSON, BuildSummaryJSON, ArtifactsJSON,
     MeJSON, ProjectsJSON}

\* bodies with a field of the wrong type, each after a field of the right type
WrongTyped ==
    {JObj(<< <<"build_num", JInt(346)>>, <<"status", JInt(5)>> >>),
     JObj(<< <<"status", JStr("ok")>>, <<"status", JBool(TRUE)>> >>),
     JObj(<< <<"login", JStr("alice")>>, <<"admin", JStr("yes")>> >>),
     JObj(<< <<"build_num", JInt(345)>>, <<"steps", JObj(<< <<"name", JStr("x")>> >>)>> >>),
     JArr(<< JObj(<< <<"build_num", JInt(346)>>, <<"reponame", JStr("r")>> >>),
             JObj(<< <<"build_num", JStr("345")>>, <<"followed", JInt(1)>> >>) >>),
     JArr(<< JObj(<< <<"node_index", JInt(0)>>, <<"path", JStr("p")>> >>),
             JObj(<< <<"node_index", JFrac("1.5")>> >>) >>)}

\* further well-formed bodies: null, empty containers, a repeated key, keys
\* in another case
Odd ==
    {JNull, JObj(<<>>), JArr(<<>>),
     JObj(<< <<"status", JStr("first")>>, <<"status", JStr("second")>> >>),
     JObj(<< <<"STATUS", JStr("ok")>>, <<"Build_Num", JInt(9)>> >>)}

(***************************************************************************)
(* Values of the result shapes as a caller writes them down, and their     *)
(* JSON text as encoding/json.Marshal writes it: the members of a struct   *)
(* under the keys of its tags, nil slices, maps and interfaces as null, a  *)
(* number held in an interface{} in decimal whatever its Go type.          *)
(***************************************************************************)

RECURSIVE MarshalAny(_)
\* the JSON of what an interface{} holds; "int" is a Go int held in it
MarshalAny(v) ==
    CASE v.any = "nil"     -> JNull
      [] v.any = "bool"    -> JBool(v.b)
      [] v.any = "float64" -> IF "n" \in DOMAIN v THEN JInt(v.n) ELSE JFrac(v.x)
      [] v.any = "int"     -> JInt(v.n)
      [] v.any = "string"  -> JStr(v.s)
      [] v.any = "slice"   -> JArr([i \in 1..Len(v.e) |-> MarshalAny(v.e[i])])
      [] v.any = "map"     ->
            LET keys == SeqOf(DOMAIN v.m) IN
            JObj([i \in 1..Len(keys) |-> <<keys[i], MarshalAny(v.m[keys[i]])>>])

RECURSIVE Marshal(_, _)
\* the JSON of a value v of type ty
Marshal(ty, v) ==
    CASE ty.k = "bool"      -> JBool(v)
      [] ty.k = "int"       -> JInt(v)
      [] ty.k = "string"    -> JStr(v)
      [] ty.k = "interface" -> MarshalAny(v)
      [] ty.k = "slice"     ->
            IF v.isnil THEN JNull
            ELSE JArr([i \in 1..Len(v.elems) |-> Marshal(ty.e, v.elems[i])])
      [] ty.k = "map"       ->
            IF v.isnil THEN JNull
            ELSE LET keys == SeqOf(DOMAIN v.m) IN
                 JObj([i \in 1..Len(keys) |-> <<keys[i], Marshal(ty.e, v.m[keys[i]])>>])
      [] ty.k = "struct"    ->
            LET gs == ty.order IN
            JObj([i \in 1..Len(gs) |-> <<ty.f[gs[i]].json, Marshal(ty.f[gs[i]].ty, v[gs[i]])>>])

ActionType == DetailedBuildSummaryType.f.Steps.ty.e.f.Actions.ty.e

MeValue ==
    [Zero(MeType) EXCEPT
        !.Login = "alice", !.Admin = TRUE, !.Containers = 2,
        !.Emails = MakeSlice(<<"alice@example.com">>),
        !.GravatarID = [any |-> "string", s |-> "0a1b"],
        !.Projects = MakeMap([key \in {"https://github.com/segmentio/analytics-android"} |->
                                 [Emails |-> "default", OnDashboard |-> TRUE]])]

ProjectValue ==
    [Zero(ProjectType) EXCEPT
        !.Reponame = "analytics-android", !.Followed = TRUE, !.Parallel = 1,
        !.Scopes = MakeSlice(<<"write-settings", "view-builds">>),
        !.FeatureFlags = MakeMap([key \in {"junit", "osx"} |-> key = "junit"]),
        !.HipChatNotify = [any |-> "bool", b |-> FALSE]]

BuildSummaryValue ==
    [Zero(BuildSummaryType) EXCEPT
        !.BuildNum = 346, !.Status = "failed", !.Canceled = TRUE,
        !.Retries = [any |-> "slice", e |-> <<[any |-> "float64", n |-> 347]>>],
        !.Messages = MakeSlice(<<[any |-> "string", s |-> "queued"], NilAny>>)]

DetailedBuildSummaryValue ==
    [Zero(DetailedBuildSummaryType) EXCEPT
        !.BuildNum = 345, !.Status = "success",
        !.Owners = MakeSlice(<<"alice", "bob">>),
        !.Steps = MakeSlice(<<
            [Name |-> "test",
             Actions |-> MakeSlice(<<
                [Zero(ActionType) EXCEPT !.Name = "gradle test", !.Index = 1,
                                         !.ExitCode = [any |-> "float64", n |-> 0]],
                [Zero(ActionType) EXCEPT !.Name = "lint", !.HasOutput = TRUE] >>)],
            [Name |-> "deploy", Actions |-> MakeSlice(<<>>)] >>)]

\* the exit code written as the Go int 0
DetailedBuildSummaryWithIntValue ==
    [Zero(DetailedBuildSummaryType) EXCEPT
        !.BuildNum = 345,
        !.Steps = MakeSlice(<<
            [Name |-> "test",
             Actions |-> MakeSlice(<<
                [Zero(ActionType) EXCEPT !.Name = "gradle test",
                                         !.ExitCode = [any |-> "int", n |-> 0]] >>)] >>)]

ArtifactValue ==
    [NodeIndex |-> 1, Path |-> "/tmp/app.apk", PrettyPath |-> "$CIRCLE_ARTIFACTS/app.apk",
     URL |-> "https://circle-artifacts.com/app.apk"]

BuildValue ==
    [Zero(BuildType) EXCEPT
        !.BuildNum = 346, !.Status = "queued", !.Branch = "master",
        !.Outcome = [any |-> "string", s |-> "success"],
        !.Previous = [BuildNum |-> 345, Status |-> "success"]]

ClearCacheResponseValue == [Status |-> "build caches deleted"]

\* a nil list, an empty list and a list of two
Lists(ty, v) == {NilSlice, MakeSlice(<<>>), MakeSlice(<<v, Zero(ty)>>)}

\* the JSON text of these values, each under the type of its operation
Marshalled ==
    {Text(Marshal(MeType, v)) : v \in {Zero(MeType), MeValue}}
    \cup {Text(Marshal(SliceT(ProjectType), v)) : v \in Lists(ProjectType, ProjectValue)}
    \cup {Text(Marshal(SliceT(BuildSummaryType), v)) : v \in Lists(BuildSummaryType, BuildSummaryValue)}
    \cup {Text(Marshal(DetailedBuildSummaryType, v)) :
             v \in {Zero(DetailedBuildSummaryType), DetailedBuildSummaryValue,
                    DetailedBuildSummaryWithIntValue}}
    \cup {Text(Marshal(SliceT(ArtifactType), v)) : v \in Lists(ArtifactType, ArtifactValue)}
    \cup {Text(Marshal(BuildType, v)) : v \in {Zero(BuildType), BuildValue}}
    \cup {Text(Marshal(ClearCacheResponseType, v)) :
             v \in {Zero(ClearCacheResponseType), ClearCacheResponseValue}}

\* every way of cutting a body short, the empty body included
Truncations(b) == {SubSeq(b, 1, n) : n \in 0..(Len(b) - 1)}

Bodies ==
    IF scope = "json"
    THEN {Text(v) : v \in Fixtures \cup WrongTyped \cup Odd
                         \cup {StepsJSON, UnorderedBuildsJSON, ManyBuildsJSON}}
         \cup UNION {Truncations(Text(v)) : v \in Fixtures}
         \cup {<<TJunk>>, Text(ClearCacheJSON) \o <<TJunk>>,
               <<LBrace, TStr("status"), TStr("ok"), RBrace>>}
         \cup Marshalled
    ELSE IF scope = "pairs"
    THEN {Text(BuildJSON)}
    ELSE {Text(BuildJSON), Text(RecentBuildsJSON)}

StatusCodes == IF scope = "json" THEN {200, 404, 500} ELSE {200}

(***************************************************************************)
(* The client and its eleven operations.  A call is blocked in             *)
(* http.Client.Do between the step that builds and hands over the request  *)
(* and the step that takes the response (or the transport's error),        *)
(* decodes it and returns.                                                 *)
(***************************************************************************)

\* func New(token string) CircleCI
New(token) == [token |-> token, http |-> "http.DefaultClient"]

NoRequest  == [ok |-> FALSE]
NoResponse == [none |-> "response"]
NoResult   == [none |-> "result"]

\* The type the response body is decoded into: the variable declared before
\* the call of Decode.
ResultType(o) ==
    CASE o = "Me"                           -> MeType
      [] o = "Projects"                     -> SliceT(ProjectType)
      [] o = "RecentBuilds"                 -> SliceT(BuildSummaryType)
      [] o = "RecentBuildsForProject"       -> SliceT(BuildSummaryType)
      [] o = "RecentBuildsForProjectBranch" -> SliceT(BuildSummaryType)
      [] o = "BuildSummary"                 -> DetailedBuildSummaryType
      [] o = "Artifacts"                    -> SliceT(ArtifactType)
      [] o = "Retry"                        -> BuildType
      [] o = "Cancel"                       -> BuildType
      [] o = "Build"                        -> BuildType
      [] o = "ClearCache"                   -> ClearCacheResponseType

\* What every error return carries as its first value: the composite
\* literal T{} of a struct, make([]T, 0) of a list.
ErrorResult(o) ==
    IF ResultType(o).k = "slice" THEN MakeSlice(<<>>) ELSE Zero(ResultType(o))

\* an assignment to a local variable of call c
Local(f, c, v) == [f EXCEPT ![c] = v]

\* Begin that checks the URL itself and refuses one that holds a '#'
BeginValidates(c, o, a, method, u) ==
    LET request == NewRequest(method, u) IN
    /\ pc[c] = "idle"
    /\ op' = Local(op, c, o)
    /\ args' = Local(args, c, a)
    /\ url' = Local(url, c, u)
    /\ IF request.ok /\ IndexOf(u, "#") = 0
       THEN /\ req' = Local(req, c, HeaderSet(request, "Accept", "application/json"))
            /\ sent' = Local(sent, c, sent[c] + 1)
            /\ pc' = Local(pc, c, "inflight")
            /\ UNCHANGED <<result, err>>
       ELSE /\ result' = Local(result, c, ErrorResult(o))
            /\ err' = Local(err, c, "url.Error")
            /\ pc' = Local(pc, c, "returned")
            /\ UNCHANGED <<req, sent>>
    /\ UNCHANGED <<scope, client, resp, decoded>>

\* From the URL to the call of Do: http.NewRequest, the early return when
\* it fails, request.Header.Set and c.http.Do(request).
Begin(c, o, a, method, u) ==
    LET request == NewRequest(method, u) IN
    /\ pc[c] = "idle"
    /\ op' = Local(op, c, o)
    /\ args' = Local(args, c, a)
    /\ url' = Local(url, c, u)
    /\ IF request.ok
       THEN /\ req' = Local(req, c, HeaderSet(request, "Accept", "application/json"))
            /\ sent' = Local(sent, c, sent[c] + 1)
            /\ pc' = Local(pc, c, "inflight")
            /\ UNCHANGED <<result, err>>
       ELSE /\ result' = Local(result, c, ErrorResult(o))
            /\ err' = Local(err, c, "url.Error")
            /\ pc' = Local(pc, c, "returned")
            /\ UNCHANGED <<req, sent>>
    /\ UNCHANGED <<scope, client, resp, decoded>>

Me(c) ==
    Begin(c, "Me", <<>>, "GET", endpoint(client, <<"/", "me">>))

Projects(c) ==
    Begin(c, "Projects", <<>>, "GET", endpoint(client, <<"/", "projects">>))

RecentBuilds(c) ==
    Begin(c, "RecentBuilds", <<>>, "GET", endpoint(client, <<"/", "recent-builds">>))

RecentBuildsForProject(c, username, project) ==
    Begin(c, "RecentBuildsForProject", [username |-> username, project |-> project], "GET",
          endpoint(client, CatAll(<< <<"/", "project", "/">>, username, <<"/">>, project >>)))

\* RecentBuildsForProjectBranch that takes a zero or an empty option for unset
RecentBuildsForProjectBranchSkipsZero(c, username, project, branch, options) ==
    LET u0 == endpoint(client, CatAll(<< <<"/", "project", "/">>, username, <<"/">>, project,
                                         <<"/", "tree", "/">>, branch >>))
        u1 == IF options.Limit # Nil /\ options.Limit # Ptr(0)
              THEN CatAll(<<u0, <<"&", "limit", "=">>, FormatInt(options.Limit[1])>>)
              ELSE u0
        u2 == IF options.Offset # Nil /\ options.Offset # Ptr(0)
              THEN CatAll(<<u1, <<"&", "offset", "=">>, FormatInt(options.Offset[1])>>)
              ELSE u1
        u3 == IF options.Filter # Nil /\ options.Filter # Ptr(<<>>)
              THEN CatAll(<<u2, <<"&", "filter", "=">>, options.Filter[1]>>)
              ELSE u2
    IN  Begin(c, "RecentBuildsForProjectBranch",
              [username |-> username, project |-> project, branch |-> branch,
               options |-> options],
              "GET", u3)

RecentBuildsForProjectBranch(c, username, project, branch, options) ==
    LET u0 == endpoint(client, CatAll(<< <<"/", "project", "/">>, username, <<"/">>, project,
                                         <<"/", "tree", "/">>, branch >>))
        u1 == IF options.Limit # Nil
              THEN CatAll(<<u0, <<"&", "limit", "=">>, FormatInt(options.Limit[1])>>)
              ELSE u0
        u2 == IF options.Offset # Nil
              THEN CatAll(<<u1, <<"&", "offset", "=">>, FormatInt(options.Offset[1])>>)
              ELSE u1
        u3 == IF options.Filter # Nil
              THEN CatAll(<<u2, <<"&", "filter", "=">>, options.Filter[1]>>)
              ELSE u2
    IN  Begin(c, "RecentBuildsForProjectBranch",
              [username |-> username, project |-> project, branch |-> branch,
               options |-> options],
              "GET", u3)

BuildSummary(c, username, project, num) ==
    Begin(c, "BuildSummary", [username |-> username, project |-> project, num |-> num], "GET",
          endpoint(client, CatAll(<< <<"/", "project", "/">>, username, <<"/">>, project,
                                     <<"/">>, FormatInt(num) >>)))

Artifacts(c, username, project, num) ==
    Begin(c, "Artifacts", [username |-> username, project |-> project, num |-> num], "GET",
          endpoint(client, CatAll(<< <<"/", "project", "/">>, username, <<"/">>, project,
                                     <<"/">>, FormatInt(num), <<"/", "artifacts">> >>)))

\* Retry sent as a read
RetryWithGet(c, username, project, num) ==
    Begin(c, "Retry", [username |-> username, project |-> project, num |-> num], "GET",
          endpoint(client, CatAll(<< <<"/", "project", "/">>, username, <<"/">>, project,
                                     <<"/">>, FormatInt(num), <<"/", "retry">> >>)))

Retry(c, username, project, num) ==
    Begin(c, "Retry", [username |-> username, project |-> project, num |-> num], "POST",
          endpoint(client, CatAll(<< <<"/", "project", "/">>, username, <<"/">>, project,
                                     <<"/">>, FormatInt(num), <<"/", "retry">> >>)))

\* Cancel that posts to the path of Retry
CancelHitsRetryPath(c, username, project, num) ==
    Begin(c, "Cancel", [username |-> username, project |-> project, num |-> num], "POST",
          endpoint(client, CatAll(<< <<"/", "project", "/">>, username, <<"/">>, project,
                                     <<"/">>, FormatInt(num), <<"/", "retry">> >>)))

Cancel(c, username, project, num) ==
    Begin(c, "Cancel", [username |-> username, project |-> project, num |-> num], "POST",
          endpoint(client, CatAll(<< <<"/", "project", "/">>, username, <<"/">>, project,
                                     <<"/">>, FormatInt(num), <<"/", "cancel">> >>)))

Build(c, username, project, branch) ==
    Begin(c, "Build", [username |-> username, project |-> project, branch |-> branch], "POST",
          endpoint(client, CatAll(<< <<"/", "project", "/">>, username, <<"/">>, project,
                                     <<"/", "tree", "/">>, branch >>)))

ClearCache(c, username, project) ==
    Begin(c, "ClearCache", [username |-> username, project |-> project], "DELETE",
          endpoint(client, CatAll(<< <<"/", "project", "/">>, username, <<"/">>, project,
                                     <<"/", "build-cache">> >>)))

\* Outcome that returns the variable decoded into also when decoding failed
OutcomePartial(o, response) ==
    LET d == Decode(ResultType(o), response.Body) IN
    [result |-> d.v, err |-> IF d.err # "" THEN d.err ELSE "nil"]

\* Outcome that takes a status of 400 or more for a failure
OutcomeChecksStatus(o, response) ==
    LET d == Decode(ResultType(o), response.Body) IN
    IF response.StatusCode >= 400
    THEN [result |-> ErrorResult(o), err |-> "bad status"]
    ELSE IF d.err # ""
    THEN [result |-> ErrorResult(o), err |-> d.err]
    ELSE [result |-> d.v, err |-> "nil"]

\* Outcome that takes a decoded struct without a status for a failure
OutcomeRequiresStatus(o, response) ==
    LET d == Decode(ResultType(o), response.Body) IN
    IF d.err # ""
    THEN [result |-> ErrorResult(o), err |-> d.err]
    ELSE IF ResultType(o).k = "struct" /\ "Status" \in DOMAIN ResultType(o).f /\ d.v.Status = ""
    THEN [result |-> ErrorResult(o), err |-> "missing field"]
    ELSE [result |-> d.v, err |-> "nil"]

\* The decoding of a response and the two return values: the decoded value
\* and nil, or the error result and the decoder's error.  The status of the
\* response is not looked at.
Outcome(o, response) ==
    LET d == Decode(ResultType(o), response.Body) IN
    IF d.err # ""
    THEN [result |-> ErrorResult(o), err |-> d.err]
    ELSE [result |-> d.v, err |-> "nil"]

\* DoFails without its return: the operation goes on to decode a body
DoFailsFallsThrough(c) ==
    /\ pc[c] = "inflight"
    /\ decoded' = Local(decoded, c, decoded[c] + 1)
    /\ result' = Local(result, c, Outcome(op[c], [Body |-> <<>>]).result)
    /\ err' = Local(err, c, "transport error")
    /\ pc' = Local(pc, c, "returned")
    /\ UNCHANGED <<scope, client, op, args, url, req, resp, sent>>

\* DoFails that sends the request again
DoFailsRetries(c) ==
    /\ pc[c] = "inflight"
    /\ sent[c] < 3
    /\ sent' = Local(sent, c, sent[c] + 1)
    /\ UNCHANGED <<scope, client, pc, op, args, url, req, resp, result, err, decoded>>

\* DoFails that gives the client a new transport
DoFailsReplacesTransport(c) ==
    /\ pc[c] = "inflight"
    /\ result' = Local(result, c, ErrorResult(op[c]))
    /\ err' = Local(err, c, "transport error")
    /\ pc' = Local(pc, c, "returned")
    /\ client' = [client EXCEPT !.http = "&http.Client{}"]
    /\ UNCHANGED <<scope, op, args, url, req, resp, sent, decoded>>

\* c.http.Do returns an error: the operation returns it with the error result.
DoFails(c) ==
    /\ pc[c] = "inflight"
    /\ result' = Local(result, c, ErrorResult(op[c]))
    /\ err' = Local(err, c, "transport error")
    /\ pc' = Local(pc, c, "returned")
    /\ UNCHANGED <<scope, client, op, args, url, req, resp, sent, decoded>>

\* DoReturns that sends the request of a side-effecting operation once more
\* when the body does not decode
DoReturnsResendsOnDecodeError(c, status, body) ==
    LET response == [StatusCode |-> status, Body |-> body]
        out      == Outcome(op[c], response)
        again    == out.err # "nil" /\ req[c].Method # "GET"
    IN
    /\ pc[c] = "inflight"
    /\ resp' = Local(resp, c, response)
    /\ decoded' = Local(decoded, c, decoded[c] + 1)
    /\ result' = Local(result, c, out.result)
    /\ err' = Local(err, c, out.err)
    /\ sent' = Local(sent, c, IF again THEN sent[c] + 1 ELSE sent[c])
    /\ pc' = Local(pc, c, "returned")
    /\ UNCHANGED <<scope, client, op, args, url, req>>

\* DoReturns that decodes into one variable shared by all calls
DoReturnsIntoShared(c, status, body) ==
    LET response == [StatusCode |-> status, Body |-> body]
        out      == Outcome(op[c], response)
    IN
    /\ pc[c] = "inflight"
    /\ resp' = Local(resp, c, response)
    /\ decoded' = Local(decoded, c, decoded[c] + 1)
    /\ result' = [k \in Calls |-> out.result]
    /\ err' = Local(err, c, out.err)
    /\ pc' = Local(pc, c, "returned")
    /\ UNCHANGED <<scope, client, op, args, url, req, sent>>

\* c.http.Do returns a response: its body is decoded and the operation
\* returns.
DoReturns(c, status, body) ==
    LET response == [StatusCode |-> status, Body |-> body]
        out      == Outcome(op[c], response)
    IN
    /\ pc[c] = "inflight"
    /\ resp' = Local(resp, c, response)
    /\ decoded' = Local(decoded, c, decoded[c] + 1)
    /\ result' = Local(result, c, out.result)
    /\ err' = Local(err, c, out.err)
    /\ pc' = Local(pc, c, "returned")
    /\ UNCHANGED <<scope, client, op, args, url, req, sent>>

\* The caller has the two return values; the locals of the call are gone.
Return(c) ==
    /\ pc[c] = "returned"
    /\ pc' = Local(pc, c, "idle")
    /\ op' = Local(op, c, "")
    /\ args' = Local(args, c, <<>>)
    /\ url' = Local(url, c, <<>>)
    /\ req' = Local(req, c, NoRequest)
    /\ resp' = Local(resp, c, NoResponse)
    /\ result' = Local(result, c, NoResult)
    /\ err' = Local(err, c, "nil")
    /\ sent' = Local(sent, c, 0)
    /\ decoded' = Local(decoded, c, 0)
    /\ UNCHANGED <<scope, client>>

InitScope(s) ==
    /\ scope = s
    /\ \E token \in Tokens : client = New(token)
    /\ pc = [c \in Calls |-> "idle"]
    /\ op = [c \in Calls |-> ""]
    /\ args = [c \in Calls |-> <<>>]
    /\ url = [c \in Calls |-> <<>>]
    /\ req = [c \in Calls |-> NoRequest]
    /\ resp = [c \in Calls |-> NoResponse]
    /\ result = [c \in Calls |-> NoResult]
    /\ err = [c \in Calls |-> "nil"]
    /\ sent = [c \in Calls |-> 0]
    /\ decoded = [c \in Calls |-> 0]

Init == InitScope("calls")

InitURL == InitScope("url")

InitJSON == InitScope("json")

InitPairs == InitScope("pairs")

Next ==
    \/ \E c \in Calls : c \in Running /\ Me(c)
    \/ \E c \in Calls : c \in Running /\ Projects(c)
    \/ \E c \in Calls : c \in Running /\ RecentBuilds(c)
    \/ \E c \in Calls : c \in Running /\
         \E username \in Usernames, project \in Projectnames :
             RecentBuildsForProject(c, username, project)
    \/ \E c \in Calls : c \in Running /\
         \E username \in Usernames, project \in Projectnames, branch \in Branches,
            options \in RecentBuildsOptions :
             RecentBuildsForProjectBranch(c, username, project, branch, options)
    \/ \E c \in Calls : c \in Running /\
         \E username \in Usernames, project \in Projectnames, num \in Nums :
             BuildSummary(c, username, project, num)
    \/ \E c \in Calls : c \in Running /\
         \E username \in Usernames, project \in Projectnames, num \in Nums :
             Artifacts(c, username, project, num)
    \/ \E c \in Calls : c \in Running /\
         \E username \in Usernames, project \in Projectnames, num \in Nums :
             Retry(c, username, project, num)
    \/ \E c \in Calls : c \in Running /\
         \E username \in Usernames, project \in Projectnames, num \in Nums :
             Cancel(c, username, project, num)
    \/ \E c \in Calls : c \in Running /\
         \E username \in Usernames, project \in Projectnames, branch \in Branches :
             Build(c, username, project, branch)
    \/ \E c \in Calls : c \in Running /\
         \E username \in Usernames, project \in Projectnames :
             ClearCache(c, username, project)
    \/ \E c \in Calls : c \in Running /\ DoFails(c)
    \/ \E c \in Calls : c \in Running /\
         \E status \in StatusCodes, body \in Bodies : DoReturns(c, status, body)
    \/ \E c \in Calls : c \in Running /\ Return(c)

\* calls side by side on one client
Spec == Init /\ [][Next]_vars

\* one call at a time, over the identifiers, numbers and options
SpecURL == InitURL /\ [][Next]_vars

\* one call at a time, over the response bodies
SpecJSON == InitJSON /\ [][Next]_vars

\* two calls side by side, over the operations and their path parameters
SpecPairs == InitPairs /\ [][Next]_vars

(***************************************************************************)
(* What the documentation says of a request, written down apart from the   *)
(* operations above: the URL patterns of the interface's comments, the     *)
(* verbs, and the decimal text of the numbers used.                        *)
(***************************************************************************)

ApiV1 == <<"https", ":", "/", "/", "circleci.com", "/", "api", "/", "v1">>

NumText(n) ==
    CASE n = -1  -> "-1"
      [] n = 0   -> "0"
      [] n = 1   -> "1"
      [] n = 2   -> "2"
      [] n = 7   -> "7"
      [] n = 345 -> "345"

InProject(a) == <<"/", "project", "/">> \o a.username \o <<"/">> \o a.project

DocumentedPath(o, a) ==
    CASE o = "Me"                           -> <<"/", "me">>
      [] o = "Projects"                     -> <<"/", "projects">>
      [] o = "RecentBuilds"                 -> <<"/", "recent-builds">>
      [] o = "RecentBuildsForProject"       -> InProject(a)
      [] o = "RecentBuildsForProjectBranch" -> InProject(a) \o <<"/", "tree", "/">> \o a.branch
      [] o = "BuildSummary"                 -> InProject(a) \o <<"/", NumText(a.num)>>
      [] o = "Artifacts"                    -> InProject(a) \o <<"/", NumText(a.num), "/", "artifacts">>
      [] o = "Retry"                        -> InProject(a) \o <<"/", NumText(a.num), "/", "retry">>
      [] o = "Cancel"                       -> InProject(a) \o <<"/", NumText(a.num), "/", "cancel">>
      [] o = "Build"                        -> InProject(a) \o <<"/", "tree", "/">> \o a.branch
      [] o = "ClearCache"                   -> InProject(a) \o <<"/", "build-cache">>

DocumentedURL(o, a, token) ==
    ApiV1 \o DocumentedPath(o, a) \o <<"?", "circle-token", "=">> \o token

DocumentedVerb(o) ==
    CASE o \in {"Me", "Projects", "RecentBuilds", "RecentBuildsForProject",
                "RecentBuildsForProjectBranch", "BuildSummary", "Artifacts"} -> "GET"
      [] o \in {"Retry", "Cancel", "Build"}                                  -> "POST"
      [] o = "ClearCache"                                                    -> "DELETE"

\* the call has options and one of them is set
OptionSet(c) ==
    /\ op[c] = "RecentBuildsForProjectBranch"
    /\ \/ args[c].options.Limit # Nil
       \/ args[c].options.Offset # Nil
       \/ args[c].options.Filter # Nil

\* the query parameters of a URL taken as text: what follows its first '?'
TextParams(u) == SplitQuery(After(u, "?"))

\* a string without any of the characters that structure a URL's query
Plain(str) == \A i \in 1..Len(str) : str[i] \notin {"?", "#", "&", "="}

\* the parameters named key
Named(params, key) == SelectSeq(params, LAMBDA p : p.key = <<key>>)

C2_VerbIsFixed ==
    \A c \in Calls :
        (pc[c] # "idle" /\ req[c].ok) => req[c].Method = DocumentedVerb(op[c])

C2_Witness ==
    \E c \in Calls :
        /\ pc[c] = "inflight"
        /\ op[c] = "Retry"
        /\ req[c].Method = "POST"
        /\ args[c].num = -1

(***************************************************************************)
(* C3.  As stated: every request that is sent has exactly one query        *)
(* parameter circle-token, and its value is the client's token, also when  *)
(* an identifier holds '?', '#' or '&'.                                    *)
(***************************************************************************)
C3_TokenIsSent ==
    \A c \in Calls :
        pc[c] = "inflight" =>
            Named(SplitQuery(req[c].URL.RawQuery), "circle-token")
                = <<[key |-> <<"circle-token">>, value |-> client.token]>>

(***************************************************************************)
(* C4.  As stated: in the URL of RecentBuildsForProjectBranch each of      *)
(* limit, offset and filter is absent when its option is nil and occurs    *)
(* exactly once, with the value provided, when its option is set.          *)
(***************************************************************************)
C4_OptionsAppearAsProvided ==
    \A c \in Calls :
        (/\ pc[c] # "idle"
         /\ op[c] = "RecentBuildsForProjectBranch"
         /\ Plain(args[c].username) /\ Plain(args[c].project) /\ Plain(args[c].branch)) =>
            LET o == args[c].options
                params == TextParams(url[c])
                Sent(key, p, text) ==
                    Named(params, key) =
                        IF p = Nil THEN <<>> ELSE <<[key |-> <<key>>, value |-> text]>>
            IN  /\ Sent("limit", o.Limit, IF o.Limit = Nil THEN <<>> ELSE <<NumText(o.Limit[1])>>)
                /\ Sent("offset", o.Offset, IF o.Offset = Nil THEN <<>> ELSE <<NumText(o.Offset[1])>>)
                /\ Sent("filter", o.Filter, IF o.Filter = Nil THEN <<>> ELSE o.Filter[1])

\* the first return value is zero-valued: the all-zero struct, or a list
\* without elements
ZeroValued(c) ==
    IF ResultType(op[c]).k = "slice"
    THEN result[c].elems = <<>>
    ELSE result[c] = Zero(ResultType(op[c]))

(***************************************************************************)
(* C5.  A call that returns because the request could not be made          *)
(* (url.Error) or because Do returned an error returns that error with a   *)
(* zero-valued result, and has neither a response nor decoded a body.      *)
(***************************************************************************)
C5_TransportFailureReturnsZero ==
    \A c \in Calls :
        (pc[c] = "returned" /\ err[c] \in {"url.Error", "transport error"}) =>
            /\ ZeroValued(c)
            /\ decoded[c] = 0
            /\ resp[c] = NoResponse
            /\ sent[c] = IF err[c] = "url.Error" THEN 0 ELSE 1

C5_Witness ==
    \E c \in Calls :
        /\ pc[c] = "returned"
        /\ err[c] = "transport error"
        /\ op[c] = "Projects"
        /\ result[c] = MakeSlice(<<>>)

\* bodies that are malformed for an operation: cut short, not JSON at all,
\* or with a field of a type other than the one the result shape declares
WrongTypedFor(o) ==
    CASE o \in {"Retry", "Cancel", "Build", "ClearCache"} ->
            {JObj(<< <<"build_num", JInt(346)>>, <<"status", JInt(5)>> >>),
             JObj(<< <<"status", JStr("ok")>>, <<"status", JBool(TRUE)>> >>)}
      [] o = "Me" ->
            {JObj(<< <<"login", JStr("alice")>>, <<"admin", JStr("yes")>> >>)}
      [] o = "BuildSummary" ->
            {JObj(<< <<"build_num", JInt(346)>>, <<"status", JInt(5)>> >>),
             JObj(<< <<"build_num", JInt(345)>>,
                     <<"steps", JObj(<< <<"name", JStr("x")>> >>)>> >>)}
      [] o \in {"Projects", "RecentBuilds", "RecentBuildsForProject",
                "RecentBuildsForProjectBranch"} ->
            {JArr(<< JObj(<< <<"build_num", JInt(346)>>, <<"reponame", JStr("r")>> >>),
                     JObj(<< <<"build_num", JStr("345")>>, <<"followed", JInt(1)>> >>) >>)}
      [] o = "Artifacts" ->
            {JArr(<< JObj(<< <<"node_index", JInt(0)>>, <<"path", JStr("p")>> >>),
                     JObj(<< <<"node_index", JFrac("1.5")>> >>) >>)}

MalformedFor(o) ==
    {Text(v) : v \in WrongTypedFor(o)}
        \cup UNION {Truncations(Text(v)) : v \in Fixtures}
        \cup {<<TJunk>>, <<LBrace, TStr("status"), TStr("ok"), RBrace>>}

(***************************************************************************)
(* C6.  A call whose response body is malformed returns a decoding error,  *)
(* and every call that returns a decoding error returns a zero-valued      *)
(* result: nothing that was stored before the error shows.                 *)
(***************************************************************************)
C6_DecodeFailureReturnsZero ==
    \A c \in Calls :
        (pc[c] = "returned" /\ resp[c] # NoResponse) =>
            /\ resp[c].Body \in MalformedFor(op[c]) => err[c] # "nil"
            /\ err[c] # "nil" => ZeroValued(c)

\* a body whose first field is stored before its second field fails
C6_Witness ==
    \E c \in Calls :
        /\ pc[c] = "returned"
        /\ op[c] = "Build"
        /\ resp[c] # NoResponse
        /\ resp[c].Body = Text(JObj(<< <<"build_num", JInt(346)>>, <<"status", JInt(5)>> >>))
        /\ Decode(BuildType, resp[c].Body).v.BuildNum = 346
        /\ err[c] = "UnmarshalTypeError"
        /\ result[c].BuildNum = 0

\* a body that matches the result shape of the operation
WellFormedFor(o) ==
    IF ResultType(o).k = "slice" THEN Text(RecentBuildsJSON) ELSE Text(BuildJSON)

C8_ExactlyOneExchange ==
    \A c \in Calls :
        /\ pc[c] = "inflight" => sent[c] = 1
        /\ pc[c] = "returned" => sent[c] = 1

(***************************************************************************)
(* C8, amended.  Every call hands at most one request to the transport:    *)
(* exactly one when the request can be constructed, and none when          *)
(* http.NewRequest rejects the URL; after a transport failure or a decode  *)
(* failure the call has returned with that one request sent, never two.    *)
(***************************************************************************)
C8_OneExchangeUnlessNoRequest ==
    \A c \in Calls :
        /\ sent[c] <= 1
        /\ pc[c] = "inflight" => sent[c] = 1
        /\ pc[c] = "returned" => sent[c] = (IF err[c] = "url.Error" THEN 0 ELSE 1)
        /\ pc[c] = "returned" => decoded[c] <= sent[c]

C8_Witness ==
    \E c \in Calls :
        /\ pc[c] = "returned"
        /\ op[c] = "Cancel"
        /\ err[c] = "transport error"
        /\ sent[c] = 1

(***************************************************************************)
(* C9.  No step of any call, successful or failed, changes the client: its *)
(* token and its transport stay the ones New set.                          *)
(***************************************************************************)
C9_ClientIsNeverWritten == [][client' = client]_vars

C9_Witness ==
    \E c, d \in Calls :
        /\ pc[c] = "returned" /\ err[c] = "nil"
        /\ pc[d] = "returned" /\ err[d] = "transport error"
        /\ client = New(<<"t0k">>)

\* the options appended by RecentBuildsForProjectBranch, in text
OptionsText(o) ==
    (IF o.Limit = Nil THEN <<>> ELSE <<"&", "limit", "=", NumText(o.Limit[1])>>)
    \o (IF o.Offset = Nil THEN <<>> ELSE <<"&", "offset", "=", NumText(o.Offset[1])>>)
    \o (IF o.Filter = Nil THEN <<>> ELSE <<"&", "filter", "=">> \o o.Filter[1])

\* the URL a call builds when it runs alone
AloneURL(c) ==
    DocumentedURL(op[c], args[c], client.token)
        \o (IF op[c] = "RecentBuildsForProjectBranch" THEN OptionsText(args[c].options) ELSE <<>>)

\* the request a call hands to the transport when it runs alone, if any
AloneRequest(c) ==
    IF ParseURL(AloneURL(c)).ok
    THEN [ok     |-> TRUE,
          Method |-> DocumentedVerb(op[c]),
          URL    |-> ParseURL(AloneURL(c)),
          Header |-> {<<"Accept", "application/json">>},
          Body   |-> "nil"]
    ELSE NoRequest

(***************************************************************************)
(* C10.  With calls side by side on one client, in any interleaving, every *)
(* call has the URL, the verb and the header it has when it runs alone,    *)
(* and returns what decoding its own response gives; a call that has not   *)
(* returned holds no result, and a call that failed to decode leaves the   *)
(* other calls' requests and results as they are.                          *)
(***************************************************************************)
C10_CallsAreIndependent ==
    \A c \in Calls :
        /\ pc[c] = "idle" =>
              (req[c] = NoRequest /\ resp[c] = NoResponse /\ result[c] = NoResult)
        /\ pc[c] # "idle" =>
              /\ url[c] = AloneURL(c)
              /\ req[c] = AloneRequest(c)
        /\ pc[c] = "inflight" => (resp[c] = NoResponse /\ result[c] = NoResult)
        /\ (pc[c] = "returned" /\ resp[c] = NoResponse) =>
              (ZeroValued(c) /\ err[c] \in {"url.Error", "transport error"})
        /\ (pc[c] = "returned" /\ resp[c] # NoResponse) =>
              LET d == Decode(ResultType(op[c]), resp[c].Body) IN
              IF d.err = ""
              THEN result[c] = d.v /\ err[c] = "nil"
              ELSE ZeroValued(c) /\ err[c] = d.err

C10_Witness ==
    \E c, d \in Calls :
        /\ pc[c] = "returned" /\ pc[d] = "returned"
        /\ op[c] = "RecentBuildsForProject" /\ op[d] = "ClearCache"
        /\ resp[c] # NoResponse /\ resp[d] # NoResponse
        /\ err[c] = "nil" /\ Len(result[c].elems) = 2
        /\ err[d] = "UnmarshalTypeError"

(***************************************************************************)
(* C11.  Every request handed to the transport, of a read, of a POST and   *)
(* of the DELETE alike, has the one header Accept: application/json and    *)
(* no other, and has no body.                                              *)
(***************************************************************************)
C11_AcceptHeaderOnlyAndNoBody ==
    \A c \in Calls :
        (pc[c] # "idle" /\ req[c].ok) =>
            /\ req[c].Header = {<<"Accept", "application/json">>}
            /\ req[c].Body = "nil"

C11_Witness ==
    \E c \in Calls :
        /\ pc[c] = "inflight"
        /\ op[c] = "ClearCache"
        /\ req[c].Method = "DELETE"
        /\ req[c].Header = {<<"Accept", "application/json">>}
        /\ req[c].Body = "nil"

\* the operation has a username and a project, a branch
HasProject(o) == o \notin {"", "Me", "Projects", "RecentBuilds"}
HasBranch(o) == o \in {"RecentBuildsForProjectBranch", "Build"}

\* a '%' that two hexadecimal digits do not follow
BadEscape(str) ==
    \E i \in 1..Len(str) : str[i] = "%" /\ (i = Len(str) \/ str[i + 1] \notin HexWords)

\* the text of a URL that http.NewRequest rejects: a bad escape before the
\* first '?' of what precedes the first '#', or after the first '#'
Rejected(u) ==
    \/ BadEscape(Before(Before(u, "#"), "?"))
    \/ BadEscape(After(u, "#"))

\* the identifiers of the call stand in the text of the URL as they were given
Verbatim(c) ==
    LET p == ApiV1 \o DocumentedPath(op[c], args[c]) IN
    Len(url[c]) >= Len(p) /\ SubSeq(url[c], 1, Len(p)) = p

(***************************************************************************)
(* C12.  As stated: whatever the identifiers, they are placed verbatim     *)
(* into the URL and the request is sent; no call fails locally before its  *)
(* request is sent.                                                        *)
(***************************************************************************)
C12_NeverFailsLocally ==
    \A c \in Calls :
        pc[c] # "idle" =>
            /\ Verbatim(c)
            /\ sent[c] = 1
            /\ err[c] # "url.Error"

(***************************************************************************)
(* C12, amended.  Whatever the identifiers, they are placed verbatim into  *)
(* the text of the URL, and the client checks nothing itself: the request  *)
(* is sent once unless http.NewRequest rejects the URL, and then the call  *)
(* returns that error with a zero-valued result and nothing is sent.       *)
(* Identifiers and a token without a bad percent escape are always sent.   *)
(***************************************************************************)
C12_FailsLocallyOnlyWhenURLRejected ==
    \A c \in Calls :
        pc[c] # "idle" =>
            /\ Verbatim(c)
            /\ IF Rejected(url[c])
               THEN pc[c] = "returned" /\ err[c] = "url.Error" /\ sent[c] = 0 /\ ZeroValued(c)
               ELSE req[c].ok /\ sent[c] = 1 /\ err[c] # "url.Error"
            /\ (/\ ~BadEscape(client.token)
                /\ HasProject(op[c]) => ~BadEscape(args[c].username) /\ ~BadEscape(args[c].project)
                /\ HasBranch(op[c]) => ~BadEscape(args[c].branch)) => sent[c] = 1

C12_Witness ==
    \E c \in Calls :
        /\ pc[c] = "returned"
        /\ op[c] = "RecentBuildsForProject"
        /\ args[c].username = <<"%", "zz">>
        /\ err[c] = "url.Error"
        /\ sent[c] = 0

\* the operations whose result is one struct
StructOps == {"Me", "BuildSummary", "Retry", "Cancel", "Build", "ClearCache"}

\* the call has returned what it decoded from a body that is one JSON object
DecodedObject(c) ==
    /\ pc[c] = "returned"
    /\ resp[c] # NoResponse
    /\ op[c] \in StructOps
    /\ ScanValue(resp[c].Body, 1).ok
    /\ ScanValue(resp[c].Body, 1).v.j = "object"
    /\ Decode(ResultType(op[c]), resp[c].Body).err = ""

\* the JSON object of the body of the call
Document(c) == ScanValue(resp[c].Body, 1).v

\* the object has no member for the key, in any case of its letters
Omits(v, key) == \A i \in 1..Len(v.o) : Fold(v.o[i][1]) # Fold(key)

\* the JSON text of the zero of a bool, an int or a string
ZeroJSON(ty) ==
    CASE ty.k = "bool"   -> JBool(FALSE)
      [] ty.k = "int"    -> JInt(0)
      [] ty.k = "string" -> JStr("")

\* the fields of the result of the call that are a bool, an int or a string
\* and that the body omits
OmittedScalars(c) ==
    LET fs == ResultType(op[c]).f IN
    {g \in DOMAIN fs : fs[g].ty.k \in {"bool", "int", "string"} /\ Omits(Document(c), fs[g].json)}

\* the body of the call with the field added, present with the zero of its type
WithZero(c, g) ==
    LET fs == ResultType(op[c]).f IN
    Text(JObj(Append(Document(c).o, <<fs[g].json, ZeroJSON(fs[g].ty)>>)))

(***************************************************************************)
(* C13.  As stated: a bool, int or string field that the body omits shows  *)
(* in the result as absent: the result differs from the one of the same    *)
(* body with the field present as false, 0 or "".                          *)
(***************************************************************************)
C13_OmittedIsDistinguishable ==
    \A c \in Calls :
        DecodedObject(c) =>
            \A g \in OmittedScalars(c) :
                result[c] # Decode(ResultType(op[c]), WithZero(c, g)).v

(***************************************************************************)
(* C13, amended.  A field that the body omits is left at the zero of its   *)
(* Go type: false, 0 or "" for a bool, an int or a string, which is what   *)
(* the same body with the field present as false, 0 or "" gives, so the    *)
(* result does not tell the two apart; nil for an interface{}, a slice or  *)
(* a map.  The call succeeds all the same.                                 *)
(***************************************************************************)
C13_OmittedFieldIsZero ==
    \A c \in Calls :
        DecodedObject(c) =>
            LET fs == ResultType(op[c]).f IN
            /\ err[c] = "nil"
            /\ \A g \in DOMAIN fs :
                   Omits(Document(c), fs[g].json) => result[c][g] = Zero(fs[g].ty)
            /\ \A g \in OmittedScalars(c) :
                   result[c] = Decode(ResultType(op[c]), WithZero(c, g)).v

\* {"status":"build caches deleted"} returned to Retry: no build_num
C13_Witness ==
    \E c \in Calls :
        /\ DecodedObject(c)
        /\ op[c] = "Retry"
        /\ resp[c].Body = Text(ClearCacheJSON)
        /\ "BuildNum" \in OmittedScalars(c)
        /\ result[c].BuildNum = 0
        /\ result[c].Status = "build caches deleted"
        /\ result[c].Outcome = NilAny

\* the value of the last member of a JSON object with the key
Member(v, key) ==
    v.o[CHOOSE i \in 1..Len(v.o) :
            v.o[i][1] = key /\ \A h \in (i + 1)..Len(v.o) : v.o[h][1] # key][2]

HasMember(v, key, kind) ==
    /\ v.j = "object"
    /\ \E i \in 1..Len(v.o) : v.o[i][1] = key
    /\ Member(v, key).j = kind

\* a JSON object with an array steps of steps that have a name and an array
\* actions of actions that have a name and an index
HasSteps(v) ==
    /\ HasMember(v, "steps", "array")
    /\ \A i \in 1..Len(Member(v, "steps").a) :
          LET step == Member(v, "steps").a[i] IN
          /\ HasMember(step, "name", "string")
          /\ HasMember(step, "actions", "array")
          /\ \A j \in 1..Len(Member(step, "actions").a) :
                /\ HasMember(Member(step, "actions").a[j], "name", "string")
                /\ HasMember(Member(step, "actions").a[j], "index", "int")

(***************************************************************************)
(* C14.  BuildSummary given a well-formed body returns as many steps as    *)
(* the JSON array steps has, the i-th step of the result being the i-th of *)
(* the array, and in every step as many actions as its JSON array actions  *)
(* has, the j-th action of the result being the j-th of the array: none    *)
(* dropped, none twice, none in another place.                             *)
(***************************************************************************)
C14_StepsAndActionsKeepTheirOrder ==
    \A c \in Calls :
        (DecodedObject(c) /\ op[c] = "BuildSummary" /\ HasSteps(Document(c))) =>
            LET steps == Member(Document(c), "steps").a
                Steps == result[c].Steps.elems
            IN  /\ err[c] = "nil"
                /\ Len(Steps) = Len(steps)
                /\ \A i \in 1..Len(steps) :
                      LET actions == Member(steps[i], "actions").a
                          Actions == Steps[i].Actions.elems
                      IN  /\ Steps[i].Name = Member(steps[i], "name").s
                          /\ Len(Actions) = Len(actions)
                          /\ \A j \in 1..Len(actions) :
                                /\ Actions[j].Name = Member(actions[j], "name").s
                                /\ Actions[j].Index = Member(actions[j], "index").n

C14_Witness ==
    \E c \in Calls :
        /\ DecodedObject(c)
        /\ op[c] = "BuildSummary"
        /\ resp[c].Body = Text(StepsJSON)
        /\ Len(result[c].Steps.elems) = 3
        /\ result[c].Steps.elems[1].Name = "test"
        /\ result[c].Steps.elems[2].Name = "checkout"
        /\ Len(result[c].Steps.elems[1].Actions.elems) = 3
        /\ result[c].Steps.elems[1].Actions.elems[2].Name = "unit"

\* values whose interface{} fields hold what the decoder itself stores
NativeValues(o) ==
    CASE o = "Me"           -> {Zero(MeType), MeValue}
      [] o = "Projects"     -> Lists(ProjectType, ProjectValue)
      [] o \in {"RecentBuilds", "RecentBuildsForProject", "RecentBuildsForProjectBranch"} ->
            Lists(BuildSummaryType, BuildSummaryValue)
      [] o = "BuildSummary" -> {Zero(DetailedBuildSummaryType), DetailedBuildSummaryValue}
      [] o = "Artifacts"    -> Lists(ArtifactType, ArtifactValue)
      [] o \in {"Retry", "Cancel", "Build"} -> {Zero(BuildType), BuildValue}
      [] o = "ClearCache"   -> {Zero(ClearCacheResponseType), ClearCacheResponseValue}

\* values of the result shape of an operation
Values(o) ==
    NativeValues(o) \cup (IF o = "BuildSummary" THEN {DetailedBuildSummaryWithIntValue} ELSE {})

\* the call has returned after a response
Answered(c) == pc[c] = "returned" /\ resp[c] # NoResponse

(***************************************************************************)
(* C15.  As stated: whatever value of its result shape is encoded into     *)
(* the body, the operation returns a value equal to it and no error.       *)
(***************************************************************************)
C15_EveryValueRoundTrips ==
    \A c \in Calls :
        Answered(c) =>
            \A v \in Values(op[c]) :
                resp[c].Body = Text(Marshal(ResultType(op[c]), v)) =>
                    (err[c] = "nil" /\ result[c] = v)

(***************************************************************************)
(* C15, amended.  A value whose interface{} fields hold only what the      *)
(* decoder stores (nil, bool, float64, string, []interface{},              *)
(* map[string]interface{}) round-trips: with its encoding as the body the  *)
(* operation returns a value equal to it.  So does every value an          *)
(* operation returns: encoded and decoded again it is the same value.      *)
(***************************************************************************)
C15_DecodedValuesRoundTrip ==
    \A c \in Calls :
        Answered(c) =>
            /\ \A v \in NativeValues(op[c]) :
                  resp[c].Body = Text(Marshal(ResultType(op[c]), v)) =>
                      (err[c] = "nil" /\ result[c] = v)
            /\ err[c] = "nil" =>
                  Decode(ResultType(op[c]), Text(Marshal(ResultType(op[c]), result[c])))
                      = Stored(result[c])

C15_Witness ==
    \E c \in Calls :
        /\ Answered(c)
        /\ op[c] = "BuildSummary"
        /\ resp[c].Body = Text(Marshal(DetailedBuildSummaryType, DetailedBuildSummaryValue))
        /\ err[c] = "nil"
        /\ result[c] = DetailedBuildSummaryValue
        /\ result[c].Steps.elems[1].Actions.elems[1].ExitCode = [any |-> "float64", n |-> 0]

\* the call has returned what it decoded from a body that is a JSON array of
\* objects with a number build_num
DecodedBuilds(c) ==
    /\ Answered(c)
    /\ ScanValue(resp[c].Body, 1).ok
    /\ Document(c).j = "array"
    /\ \A i \in 1..Len(Document(c).a) : HasMember(Document(c).a[i], "build_num", "int")
    /\ Decode(ResultType(op[c]), resp[c].Body).err = ""

\* every element is at most, or every element is at least, the one before it
Ordered(nums) ==
    \/ \A i \in 1..(Len(nums) - 1) : nums[i] >= nums[i + 1]
    \/ \A i \in 1..(Len(nums) - 1) : nums[i] <= nums[i + 1]

C17_OptionsFollowTheTokenInOrder ==
    \A c \in Calls :
        (pc[c] # "idle" /\ op[c] = "RecentBuildsForProjectBranch") =>
            LET o      == args[c].options
                limit  == IF o.Limit = Nil THEN <<>>
                          ELSE <<"&", "limit", "=", NumText(o.Limit[1])>>
                offset == IF o.Offset = Nil THEN <<>>
                          ELSE <<"&", "offset", "=", NumText(o.Offset[1])>>
                filter == IF o.Filter = Nil THEN <<>>
                          ELSE <<"&", "filter", "=">> \o o.Filter[1]
            IN  url[c] = DocumentedURL(op[c], args[c], client.token) \o limit \o offset \o filter

C17_Witness ==
    \E c \in Calls :
        /\ pc[c] = "inflight"
        /\ op[c] = "RecentBuildsForProjectBranch"
        /\ args[c].username = <<"segmentio">>
        /\ args[c].project = <<"analytics-android">>
        /\ args[c].branch = <<"master">>
        /\ args[c].options = [Limit |-> Ptr(0), Offset |-> Ptr(0), Filter |-> Ptr(<<>>)]
        /\ After(url[c], "?") = <<"circle-token", "=">> \o client.token
                                  \o <<"&", "limit", "=", "0", "&", "offset", "=", "0",
                                       "&", "filter", "=">>

(***************************************************************************)
(* C18.  When Retry, Cancel, Build or ClearCache returns an error of the   *)
(* decoder, its request, with the verb of the operation, has been handed   *)
(* to the transport exactly once and a response has come back for it: the  *)
(* error says nothing about the effect on the service, and the call sends  *)
(* nothing after the failure.                                              *)
(***************************************************************************)
SideEffecting == {"Retry", "Cancel", "Build", "ClearCache"}

\* the call has returned an error that comes from decoding the body
DecodeFailed(c) ==
    /\ pc[c] = "returned"
    /\ err[c] \notin {"nil", "url.Error", "transport error"}

C18_DecodeFailureFollowsOneDelivery ==
    \A c \in Calls :
        (op[c] \in SideEffecting /\ DecodeFailed(c)) =>
            /\ sent[c] = 1
            /\ req[c] # NoRequest
            /\ req[c].Method = DocumentedVerb(op[c])
            /\ req[c].Method # "GET"
            /\ resp[c] # NoResponse
            /\ decoded[c] = 1
            /\ result[c] = ErrorResult(op[c])

C18_Witness ==
    \E c \in Calls :
        /\ op[c] = "Cancel"
        /\ DecodeFailed(c)
        /\ resp[c].StatusCode = 200
        /\ resp[c].Body # <<>>
        /\ sent[c] = 1

(***************************************************************************)
(* C19.  Two calls whose identifiers hold no '/', '?', '#' or '&' and that *)
(* differ in the operation or in a path parameter have different pairs of  *)
(* verb and URL, in the text the client builds and in what is written on   *)
(* the wire.  Their URLs alone are equal in one case only: Build and       *)
(* RecentBuildsForProjectBranch without options, for the same user,        *)
(* project and branch; there the verbs are POST and GET.                   *)
(***************************************************************************)
PlainSegment(str) == \A i \in 1..Len(str) : str[i] \notin {"/", "?", "#", "&"}

\* the identifiers of the call hold none of the four characters
PlainIdentifiers(c) ==
    /\ HasProject(op[c]) => PlainSegment(args[c].username) /\ PlainSegment(args[c].project)
    /\ HasBranch(op[c]) => PlainSegment(args[c].branch)

\* the two calls differ in the operation or in a path parameter
Differ(c, d) ==
    \/ op[c] # op[d]
    \/ \E f \in DOMAIN args[c] \ {"options"} : args[c][f] # args[d][f]

\* c triggers a build of the branch whose builds d lists, without options
Twins(c, d) ==
    /\ op[c] = "Build"
    /\ op[d] = "RecentBuildsForProjectBranch"
    /\ ~OptionSet(d)
    /\ args[c].username = args[d].username
    /\ args[c].project = args[d].project
    /\ args[c].branch = args[d].branch

====
